---- MODULE Spec2Model ----
(***************************************************************************)
(* Boundary operators of the matmul-parallel region                        *)
(* (physicsnemo/sym/models/afno/distributed/mappings.py).                  *)
(*                                                                         *)
(* Every rank of the "model_parallel" group runs a program of operator     *)
(* invocations: the forward calls in program order, then the matching      *)
(* backward calls.  A call runs on its rank until it enters a collective   *)
(* primitive, where it waits for the other ranks of the group.             *)
(* Tensors are matrices (sequences of rows) of integers; dim 0 is the row  *)
(* axis and dim 1 the column axis.                                         *)
(***************************************************************************)
EXTENDS Integers, Sequences, FiniteSets, TLC

MaxN == 2
MaxSeed == 1
MaxCalls == 2
Chunk == 1

VARIABLES N, prog, border, xseed, gseed, pc, todo, val, ctxs, fout, bout,
          board, cseq, fcoll, bcoll

vars == <<N, prog, border, xseed, gseed, pc, todo, val, ctxs, fout, bout,
          board, cseq, fcoll, bcoll>>

Ranks == 0 .. (N - 1)

Dims == {0, 1}

(***************************************************************************)
(* Tensors.                                                                *)
(***************************************************************************)
NoTensor == << >>

Rows(t) == Len(t)

Cols(t) == IF Len(t) = 0 THEN 0 ELSE Len(t[1])

Shape(t) == <<Rows(t), Cols(t)>>

\* Entry (i, j) of the tensor of a seed.  Seed 0 is zero everywhere but in
\* its last entry; any other seed has entries that identify the seed and the
\* position.
Entry(seed, rows, cols, i, j) ==
    IF seed = 0 THEN (IF i = rows /\ j = cols THEN 1 ELSE 0)
    ELSE seed * 100 + (i - 1) * cols + j

Gen(seed, rows, cols) ==
    [i \in 1 .. rows |-> [j \in 1 .. cols |-> Entry(seed, rows, cols, i, j)]]

Add(a, b) == [i \in 1 .. Rows(a) |-> [j \in 1 .. Cols(a) |-> a[i][j] + b[i][j]]]

RECURSIVE SumSeq(_)
SumSeq(ts) ==
    IF Len(ts) = 1 THEN ts[1] ELSE Add(ts[1], SumSeq(Tail(ts)))

RECURSIVE CatRows(_)
CatRows(ts) ==
    IF Len(ts) = 0 THEN << >> ELSE ts[1] \o CatRows(Tail(ts))

RECURSIVE CatCols(_)
CatCols(ts) ==
    IF Len(ts) = 1 THEN ts[1]
    ELSE LET rest == CatCols(Tail(ts))
         IN  [i \in 1 .. Rows(ts[1]) |-> ts[1][i] \o rest[i]]

(***************************************************************************)
(* Collective primitives of distributed/helpers.py.                        *)
(***************************************************************************)
\* split_tensor_along_dim: the n equal chunks of t along dim, in order.
split_tensor_along_dim(t, dim, n) ==
    IF dim = 0
    THEN LET h == Rows(t) \div n
         IN  [c \in 1 .. n |-> SubSeq(t, (c - 1) * h + 1, c * h)]
    ELSE LET w == Cols(t) \div n
         IN  [c \in 1 .. n |->
                 [i \in 1 .. Rows(t) |-> SubSeq(t[i], (c - 1) * w + 1, c * w)]]

\* _reduce: the all-reduce sum of the tensors of all ranks.
reduce(ts) == SumSeq(ts)

\* _split: this rank's chunk of its own tensor.
split(t, dim, n, rank) == split_tensor_along_dim(t, dim, n)[rank + 1]

\* _gather: the tensors of all ranks concatenated along dim in rank order.
gather(ts, dim) == IF dim = 0 THEN CatRows(ts) ELSE CatCols(ts)

\* The primitives that synchronise the group.
IsCollective(kind) == kind \in {"reduce", "split", "gather"}

(***************************************************************************)
(* The autograd context of one apply() call: a set of <<attribute, value>> *)
(* pairs.  ctxs[r][k] is the context of the k-th call of rank r.           *)
(***************************************************************************)
NewCtx == {}

\* ctx.dim = dim_ on the context of call k, cs being the contexts of the rank.
\* dim kept in one place shared by all calls of the rank.
SetDim_Shared(cs, k, dim_) == [j \in DOMAIN cs |-> {<<"dim", dim_>>}]

SetDim(cs, k, dim_) ==
    [cs EXCEPT ![k] = {p \in cs[k] : p[1] # "dim"} \cup {<<"dim", dim_>>}]

\* ctx.dim
CtxDim(ctx) == (CHOOSE p \in ctx : p[1] = "dim")[2]

(***************************************************************************)
(* The five autograd functions.  A forward or backward body is the         *)
(* sequence of primitive calls it makes on its argument; the value of the  *)
(* last call is what it returns, and an empty sequence returns the         *)
(* argument itself.  Each body is preceded by the faulty variants the      *)
(* properties are tried against.                                           *)
(***************************************************************************)
CopyForward_Reduces == << <<"reduce">> >>

CopyToMatmulParallelRegion_forward == << >>

CopyBackward_NoReduce == << >>

CopyToMatmulParallelRegion_backward == << <<"reduce">> >>

ReduceForward_NoReduce == << >>

ReduceFromMatmulParallelRegion_forward == << <<"reduce">> >>

ReduceBackward_Reduces == << <<"reduce">> >>

ReduceBackward_ReturnsNone == << <<"none">> >>

ReduceFromMatmulParallelRegion_backward == << >>

ScatterToMatmulParallelRegion_forward(dim_) == << <<"split", dim_>> >>

ScatterBackward_Reduces(ctx) == << <<"reduce">> >>

ScatterToMatmulParallelRegion_backward(ctx) == << <<"gather", CtxDim(ctx)>> >>

GatherForward_OtherDim(dim_) == << <<"gather", 1 - dim_>> >>

GatherFromMatmulParallelRegion_forward(dim_) == << <<"gather", dim_>> >>

GatherFromMatmulParallelRegion_backward(ctx) == << <<"split", CtxDim(ctx)>> >>

GatherWithinForward_NoGather(dim_) == << >>

GatherWithinMatmulParallelRegion_forward(dim_) == << <<"gather", dim_>> >>

GatherWithinBackward_NoReduce(ctx) == << <<"split", CtxDim(ctx)>> >>

GatherWithinMatmulParallelRegion_backward(ctx) ==
    << <<"reduce">>, <<"split", CtxDim(ctx)>> >>

\* The operators that take a dim and record it in their context.
DimOps == {"Scatter", "Gather", "GatherWithin"}

Ops == {"Copy", "Reduce"} \cup DimOps

\* Function.apply, forward side: the body run for call c.
ForwardSteps(c) ==
    CASE c.op = "Copy" -> CopyToMatmulParallelRegion_forward
      [] c.op = "Reduce" -> ReduceFromMatmulParallelRegion_forward
      [] c.op = "Scatter" -> ScatterToMatmulParallelRegion_forward(c.dim)
      [] c.op = "Gather" -> GatherFromMatmulParallelRegion_forward(c.dim)
      [] c.op = "GatherWithin" -> GatherWithinMatmulParallelRegion_forward(c.dim)

\* The context of call k after its forward body ran.
ForwardCtx(cs, k, c) == IF c.op \in DimOps THEN SetDim(cs, k, c.dim) ELSE cs

\* Function.apply, backward side: the body run for call c with its context.
BackwardSteps(c, ctx) ==
    CASE c.op = "Copy" -> CopyToMatmulParallelRegion_backward
      [] c.op = "Reduce" -> ReduceFromMatmulParallelRegion_backward
      [] c.op = "Scatter" -> ScatterToMatmulParallelRegion_backward(ctx)
      [] c.op = "Gather" -> GatherFromMatmulParallelRegion_backward(ctx)
      [] c.op = "GatherWithin" -> GatherWithinMatmulParallelRegion_backward(ctx)

(***************************************************************************)
(* Inputs.  A call takes a fresh tensor of its rank, or (chain) the output *)
(* of the rank's previous call; its incoming gradient has the shape of its *)
(* forward output.                                                         *)
(***************************************************************************)
Full == N * Chunk

InShape(c) ==
    IF c.op \in {"Gather", "GatherWithin"}
    THEN (IF c.dim = 0 THEN <<Chunk, Full>> ELSE <<Full, Chunk>>)
    ELSE <<Full, Full>>

Input(r, k) ==
    LET c == prog[r][k]
    IN  IF c.chain /\ k > 1 THEN fout[r][k - 1]
        ELSE Gen(xseed[r], InShape(c)[1], InShape(c)[2])

Grad(r, k) == Gen(gseed[r], Rows(fout[r][k]), Cols(fout[r][k]))

(***************************************************************************)
(* The collective transport.  The s-th collective entered by a rank meets  *)
(* the s-th collective of every other rank; board[s][q] is what rank q     *)
(* brought to it.                                                          *)
(***************************************************************************)
NoEntry == [step |-> << >>, val |-> NoTensor]

Post(b, s, r, e) ==
    IF s > Len(b)
    THEN Append(b, [q \in Ranks |-> IF q = r THEN e ELSE NoEntry])
    ELSE [b EXCEPT ![s][r] = e]

AllEntered(s) ==
    /\ s \in 1 .. Len(board)
    /\ \A q \in Ranks : board[s][q] # NoEntry

Matched(s) ==
    \A p, q \in Ranks :
        /\ board[s][p].step[1] = board[s][q].step[1]
        /\ Shape(board[s][p].val) = Shape(board[s][q].val)

Complete(s) == AllEntered(s) /\ Matched(s)

Result(s, r) ==
    LET e == board[s][r]
        ts == [i \in 1 .. N |-> board[s][i - 1].val]
    IN  CASE e.step[1] = "reduce" -> reduce(ts)
          [] e.step[1] = "split" -> split(e.val, e.step[2], N, r)
          [] e.step[1] = "gather" -> gather(ts, e.step[2])

(***************************************************************************)
(* One rank running one call.                                              *)
(***************************************************************************)
\* A step that is no collective: a body that returns None.
Local(step, v) == IF step[1] = "none" THEN NoTensor ELSE v

RECURSIVE Advance(_, _)
Advance(v, steps) ==
    IF steps = << >> \/ IsCollective(steps[1][1])
    THEN [val |-> v, steps |-> steps]
    ELSE Advance(Local(steps[1], v), Tail(steps))

\* The call of rank r that is running or is the next to run.
CurCall(r) ==
    IF pc[r].phase = "fwd" THEN pc[r].idx + 1 ELSE border[r][pc[r].idx + 1]

AfterCall(r) ==
    LET n == pc[r].idx + 1
    IN  IF n < Len(prog[r]) THEN [phase |-> pc[r].phase, idx |-> n, wait |-> FALSE]
        ELSE IF pc[r].phase = "fwd" THEN [phase |-> "bwd", idx |-> 0, wait |-> FALSE]
        ELSE [phase |-> "done", idx |-> n, wait |-> FALSE]

\* Rank r runs the rest of call k from value v: up to the next collective,
\* which it enters, or to the return of the call.
Proceed(r, k, v, steps) ==
    LET a == Advance(v, steps)
        s == cseq[r] + 1
    IN  IF a.steps = << >>
        THEN /\ pc' = [pc EXCEPT ![r] = AfterCall(r)]
             /\ todo' = [todo EXCEPT ![r] = << >>]
             /\ val' = [val EXCEPT ![r] = NoTensor]
             /\ IF pc[r].phase = "fwd"
                THEN fout' = [fout EXCEPT ![r][k] = a.val] /\ UNCHANGED bout
                ELSE bout' = [bout EXCEPT ![r][k] = a.val] /\ UNCHANGED fout
             /\ UNCHANGED <<board, cseq, fcoll, bcoll>>
        ELSE /\ pc' = [pc EXCEPT ![r].wait = TRUE]
             /\ todo' = [todo EXCEPT ![r] = Tail(a.steps)]
             /\ val' = [val EXCEPT ![r] = a.val]
             /\ board' = Post(board, s, r, [step |-> a.steps[1], val |-> a.val])
             /\ cseq' = [cseq EXCEPT ![r] = s]
             /\ IF pc[r].phase = "fwd"
                THEN fcoll' = [fcoll EXCEPT ![r][k] = @ \cup {s}] /\ UNCHANGED bcoll
                ELSE bcoll' = [bcoll EXCEPT ![r][k] = @ \cup {s}] /\ UNCHANGED fcoll
             /\ UNCHANGED <<fout, bout>>

\* op.apply(input_[, dim]) on rank r: the forward body of its next call.
InvokeForward(r) ==
    /\ pc[r].phase = "fwd" /\ ~pc[r].wait
    /\ LET k == CurCall(r)
       IN  /\ ctxs' = [ctxs EXCEPT ![r] = ForwardCtx(ctxs[r], k, prog[r][k])]
           /\ Proceed(r, k, Input(r, k), ForwardSteps(prog[r][k]))
    /\ UNCHANGED <<N, prog, border, xseed, gseed>>

\* The autograd engine runs the backward body of the next call of border[r].
InvokeBackward(r) ==
    /\ pc[r].phase = "bwd" /\ ~pc[r].wait
    /\ LET k == CurCall(r)
       IN  Proceed(r, k, Grad(r, k), BackwardSteps(prog[r][k], ctxs[r][k]))
    /\ UNCHANGED <<N, prog, border, xseed, gseed, ctxs>>

\* The collective rank r waits in completes; r goes on with its call.
CollectiveReturn(r) ==
    /\ pc[r].wait
    /\ Complete(cseq[r])
    /\ Proceed(r, CurCall(r), Result(cseq[r], r), todo[r])
    /\ UNCHANGED <<N, prog, border, xseed, gseed, ctxs>>

Step(r) == InvokeForward(r) \/ InvokeBackward(r) \/ CollectiveReturn(r)

Next ==
    \/ \E r \in Ranks : InvokeForward(r)
    \/ \E r \in Ranks : InvokeBackward(r)
    \/ \E r \in Ranks : CollectiveReturn(r)

(***************************************************************************)
(* Initial states.                                                         *)
(***************************************************************************)
Call(o, d, ch) == [op |-> o, dim |-> d, chain |-> ch]

CallSet ==
    {Call(o, 0, FALSE) : o \in {"Copy", "Reduce"}}
        \cup {Call(o, d, FALSE) : o \in DimOps, d \in Dims}

Permuted(P, f) == [i \in 1 .. Len(P) |-> P[f[i]]]

\* One invocation, or a Scatter followed by a Gather or Gather-Within that
\* takes a fresh shard or the shard the Scatter returned.
DataProgs ==
    {<<c>> : c \in CallSet}
        \cup {<<Call("Scatter", d, FALSE), Call(o, e, ch)>> :
                 d \in Dims, o \in {"Gather", "GatherWithin"}, e \in Dims,
                 ch \in BOOLEAN}

SeqProgs == UNION {[1 .. n -> CallSet] : n \in 1 .. MaxCalls}

InitRun(n, P0, B0, P1, B1) ==
    /\ N = n
    /\ prog = [r \in 0 .. (n - 1) |-> IF r = 0 THEN P0 ELSE P1]
    /\ border = [r \in 0 .. (n - 1) |-> IF r = 0 THEN B0 ELSE B1]
    /\ pc = [r \in 0 .. (n - 1) |-> [phase |-> "fwd", idx |-> 0, wait |-> FALSE]]
    /\ todo = [r \in 0 .. (n - 1) |-> << >>]
    /\ val = [r \in 0 .. (n - 1) |-> NoTensor]
    /\ ctxs = [r \in 0 .. (n - 1) |-> [k \in 1 .. Len(P0) |-> NewCtx]]
    /\ fout = [r \in 0 .. (n - 1) |-> [k \in 1 .. Len(P0) |-> NoTensor]]
    /\ bout = [r \in 0 .. (n - 1) |-> [k \in 1 .. Len(P0) |-> NoTensor]]
    /\ board = << >>
    /\ cseq = [r \in 0 .. (n - 1) |-> 0]
    /\ fcoll = [r \in 0 .. (n - 1) |-> [k \in 1 .. Len(P0) |-> {}]]
    /\ bcoll = [r \in 0 .. (n - 1) |-> [k \in 1 .. Len(P0) |-> {}]]

\* The orders in which a rank runs n calls: as listed, or reversed.
Orders(n) == {[i \in 1 .. n |-> i], [i \in 1 .. n |-> n + 1 - i]}

\* Every rank runs the same program on a tensor of its own; its incoming
\* gradients are the tensors of its seed moved by an offset common to the
\* ranks.
Init ==
    \E n \in 1 .. MaxN, P \in DataProgs :
        \E B \in Orders(Len(P)), off \in {0, 1} :
            /\ InitRun(n, P, B, P, B)
            /\ xseed \in [0 .. (n - 1) -> 0 .. MaxSeed]
            /\ gseed = [r \in 0 .. (n - 1) |-> (xseed[r] + off) % (MaxSeed + 1)]

\* Rank 0 runs a program; the other ranks run its calls in an order of
\* their own.
InitSeq ==
    \E n \in 1 .. MaxN, P \in SeqProgs :
        \E B0, B1, f \in Orders(Len(P)) :
            /\ InitRun(n, P, B0, Permuted(P, f), B1)
            /\ xseed = [r \in 0 .. (n - 1) |-> 0]
            /\ gseed = [r \in 0 .. (n - 1) |-> 0]

\* As InitSeq for the calls along dim 0, every rank running its backward
\* calls in the reverse of the order of its forward calls.
FairProgs == {P \in SeqProgs : \A k \in 1 .. Len(P) : P[k].dim = 0}

InitFair ==
    \E n \in 1 .. MaxN, P \in FairProgs :
        \E f \in Orders(Len(P)) :
            LET B == [i \in 1 .. Len(P) |-> Len(P) + 1 - i]
            IN  /\ InitRun(n, P, B, Permuted(P, f), B)
                /\ xseed = [r \in 0 .. (n - 1) |-> 0]
                /\ gseed = [r \in 0 .. (n - 1) |-> 0]

Spec == Init /\ [][Next]_vars

SpecSeq == InitSeq /\ [][Next]_vars

\* Every rank is a process of its own and keeps running.
SpecFair ==
    /\ InitFair
    /\ [][Next]_vars
    /\ \A r \in 0 .. (MaxN - 1) : WF_vars(r \in Ranks /\ Step(r))

(***************************************************************************)
(* Vocabulary of the properties.                                           *)
(***************************************************************************)
FwdDone(r, k) == pc[r].phase # "fwd" \/ pc[r].idx >= k

BwdDone(r, k) ==
    \/ pc[r].phase = "done"
    \/ pc[r].phase = "bwd" /\ \E j \in 1 .. pc[r].idx : border[r][j] = k

CallIds(r) == 1 .. Len(prog[r])

AllDone == \A r \in Ranks : pc[r].phase = "done"

\* The sum over ranks 0 .. q of entry (i, j) of their tensors.
RECURSIVE SumEntries(_, _, _, _, _, _)
SumEntries(q, seeds, rows, cols, i, j) ==
    IF q < 0 THEN 0
    ELSE Entry(seeds[q], rows, cols, i, j)
             + SumEntries(q - 1, seeds, rows, cols, i, j)

\* g_0 + ... + g_{N-1} for the tensors of the given seeds.
RefSum(seeds, rows, cols) ==
    [i \in 1 .. rows |->
        [j \in 1 .. cols |-> SumEntries(N - 1, seeds, rows, cols, i, j)]]

\* The r-th of the N equal shards of t along dim.
RefShard(t, dim, r) ==
    IF dim = 0
    THEN [i \in 1 .. (Rows(t) \div N) |-> t[r * (Rows(t) \div N) + i]]
    ELSE [i \in 1 .. Rows(t) |->
             [j \in 1 .. (Cols(t) \div N) |-> t[i][r * (Cols(t) \div N) + j]]]

IsZero(t) == \A i \in 1 .. Rows(t) : \A j \in 1 .. Cols(t) : t[i][j] = 0

(***************************************************************************)
(* C1. Copy returns its input unchanged in the forward pass, and its       *)
(* backward pass returns on every rank the sum g_0 + ... + g_{N-1} of the  *)
(* incoming gradients of all ranks.                                        *)
(***************************************************************************)
C1_CopyAdjoint ==
    \A r \in Ranks : \A k \in CallIds(r) :
        prog[r][k].op = "Copy" =>
            /\ FwdDone(r, k) => fout[r][k] = Gen(xseed[r], Full, Full)
            /\ BwdDone(r, k) => bout[r][k] = RefSum(gseed, Full, Full)

C1_Witness ==
    /\ N >= 2
    /\ prog[0][1].op = "Copy"
    /\ \A r \in Ranks : BwdDone(r, 1)
    /\ gseed[0] # gseed[1]

(***************************************************************************)
(* C2. Reduce returns on every rank the sum x_0 + ... + x_{N-1} in the     *)
(* forward pass, and its backward pass returns the rank's own incoming     *)
(* gradient unchanged.                                                     *)
(***************************************************************************)
C2_ReduceAdjoint ==
    \A r \in Ranks : \A k \in CallIds(r) :
        prog[r][k].op = "Reduce" =>
            /\ FwdDone(r, k) => fout[r][k] = RefSum(xseed, Full, Full)
            /\ BwdDone(r, k) => bout[r][k] = Gen(gseed[r], Full, Full)

C2_Witness ==
    /\ N >= 2
    /\ prog[0][1].op = "Reduce"
    /\ \A r \in Ranks : BwdDone(r, 1)
    /\ xseed[0] # xseed[1]
    /\ gseed[0] # gseed[1]

RoundTripRun ==
    /\ Len(prog[0]) > 1
    /\ prog[0][1] = Call("Scatter", 0, FALSE)
    /\ prog[0][2] = Call("Gather", 0, TRUE)
    /\ \A r \in Ranks : xseed[r] = xseed[0]

(***************************************************************************)
(* C3. Scatter/Gather round trip: when every rank scatters the same x      *)
(* along dim 0 and the ranks gather the shards along dim 0, every rank     *)
(* obtains exactly x.                                                      *)
(***************************************************************************)
C3_RoundTrip ==
    RoundTripRun =>
        \A r \in Ranks : FwdDone(r, 2) => fout[r][2] = Gen(xseed[0], Full, Full)

C3_Witness ==
    /\ RoundTripRun
    /\ N >= 2
    /\ xseed[0] > 0
    /\ \A r \in Ranks : FwdDone(r, 2)

\* The incoming gradient of rank q for call k, of the shape of the tensor
\* rank r gathered.
GradOf(q, r, k) == Gen(gseed[q], Rows(fout[r][k]), Cols(fout[r][k]))

OwnShard(r, k) == RefShard(GradOf(r, r, k), prog[r][k].dim, r)

SumShard(r, k) ==
    RefShard(RefSum(gseed, Rows(fout[r][k]), Cols(fout[r][k])), prog[r][k].dim, r)

\* The r-th shard of the sum of the gradients of the ranks other than r.
OthersShard(r, k) ==
    [i \in 1 .. Rows(SumShard(r, k)) |->
        [j \in 1 .. Cols(SumShard(r, k)) |->
            SumShard(r, k)[i][j] - OwnShard(r, k)[i][j]]]

C4_Shards ==
    \A r \in Ranks : \A k \in CallIds(r) :
        BwdDone(r, k) =>
            /\ prog[r][k].op = "GatherWithin" => bout[r][k] = SumShard(r, k)
            /\ prog[r][k].op = "Gather" => bout[r][k] = OwnShard(r, k)

(***************************************************************************)
(* C4. Gather-Within backward on rank r is the r-th shard of               *)
(* g_0 + ... + g_{N-1} along the recorded dim; plain Gather backward is    *)
(* the r-th shard of the rank's own g_r.  As amended: the two differ       *)
(* exactly when the sum of the other ranks' gradients is not zero on       *)
(* rank r's shard.                                                         *)
(***************************************************************************)
C4_GatherWithinReduces ==
    /\ C4_Shards
    /\ \A r \in Ranks : \A k \in CallIds(r) :
           (BwdDone(r, k) /\ prog[r][k].op = "GatherWithin") =>
               (bout[r][k] # OwnShard(r, k) <=> ~IsZero(OthersShard(r, k)))

\* C4 with its last clause as first stated: the two differ whenever the
\* gradient of another rank is not all zero.
C4_AsWritten ==
    /\ C4_Shards
    /\ \A r \in Ranks : \A k \in CallIds(r) :
           (/\ BwdDone(r, k)
            /\ prog[r][k].op = "GatherWithin"
            /\ \E q \in Ranks \ {r} : ~IsZero(GradOf(q, r, k)))
               => bout[r][k] # OwnShard(r, k)

C4_Witness ==
    /\ N >= 2
    /\ \E k \in CallIds(0) :
           /\ prog[0][k].op = "GatherWithin"
           /\ \A r \in Ranks : BwdDone(r, k)
           /\ \E r \in Ranks : bout[r][k] # OwnShard(r, k)
           /\ \E r \in Ranks : bout[r][k] = OwnShard(r, k)

(***************************************************************************)
(* C5. Dimension consistency: the dim a backward call of Scatter, Gather   *)
(* or Gather-Within uses is the dim passed to the forward call of the same *)
(* invocation, whatever other invocations are outstanding and in whatever  *)
(* order the backward calls run; the context of a call keeps its dim.      *)
(***************************************************************************)
C5_DimConsistency ==
    \A r \in Ranks : \A k \in CallIds(r) :
        prog[r][k].op \in DimOps =>
            /\ FwdDone(r, k) => ctxs[r][k] = {<<"dim", prog[r][k].dim>>}
            /\ \A s \in bcoll[r][k] :
                   Len(board[s][r].step) = 2 =>
                       board[s][r].step[2] = prog[r][k].dim

C5_Witness ==
    \E r \in Ranks :
        /\ Len(prog[r]) > 1
        /\ prog[r][1].op \in DimOps
        /\ prog[r][2].op \in DimOps
        /\ prog[r][1].dim # prog[r][2].dim
        /\ border[r][1] = 1
        /\ BwdDone(r, 1)
        /\ BwdDone(r, 2)

(***************************************************************************)
(* C6. Single-rank degeneracy: in a group of one rank each of the five     *)
(* operations returns its input unchanged in the forward pass and the      *)
(* incoming gradient unchanged in the backward pass.                       *)
(***************************************************************************)
C6_SingleRank ==
    N = 1 =>
        \A k \in CallIds(0) :
            /\ FwdDone(0, k) => fout[0][k] = Input(0, k)
            /\ BwdDone(0, k) => bout[0][k] = Grad(0, k)

C6_Witness ==
    /\ N = 1
    /\ AllDone
    /\ Len(prog[0]) > 1
    /\ prog[0][2].op = "GatherWithin"
    /\ xseed[0] > 0
    /\ gseed[0] > 0

MirrorRun ==
    /\ Len(prog[0]) > 1
    /\ prog[0][1].op = "Scatter"
    /\ prog[0][2] = Call("Gather", prog[0][1].dim, FALSE)
    /\ \A r \in Ranks : gseed[r] = xseed[r]

(***************************************************************************)
(* C7. Scatter and Gather mirror each other: Scatter's backward on         *)
(* per-rank gradients g_r is Gather's forward on the same g_r along the    *)
(* same dim (the g_r concatenated in rank order), and Gather's backward on *)
(* a full gradient g is Scatter's forward on g along the same dim.         *)
(***************************************************************************)
C7_ScatterGatherMirror ==
    MirrorRun =>
        \A r \in Ranks :
            /\ (BwdDone(r, 1) /\ FwdDone(r, 2)) => bout[r][1] = fout[r][2]
            /\ BwdDone(r, 1) =>
                   \A q \in Ranks :
                       RefShard(bout[r][1], prog[r][1].dim, q)
                           = Gen(gseed[q], Rows(fout[r][1]), Cols(fout[r][1]))
            /\ BwdDone(r, 2) => bout[r][2] = fout[r][1]

C7_Witness ==
    /\ MirrorRun
    /\ N >= 2
    /\ AllDone
    /\ xseed[0] # xseed[1]

Synchronised(cs) == cs # {} /\ \A s \in cs : AllEntered(s)

(***************************************************************************)
(* C8. Copy-forward and Reduce-backward involve no communication and       *)
(* complete locally; every other forward or backward call takes part in a  *)
(* collective and returns only after every rank of the group entered it.   *)
(***************************************************************************)
C8_Communication ==
    \A r \in Ranks : \A k \in CallIds(r) :
        /\ FwdDone(r, k) =>
               IF prog[r][k].op = "Copy" THEN fcoll[r][k] = {}
               ELSE Synchronised(fcoll[r][k])
        /\ BwdDone(r, k) =>
               IF prog[r][k].op = "Reduce" THEN bcoll[r][k] = {}
               ELSE Synchronised(bcoll[r][k])

C8_Witness ==
    \E r, q \in Ranks :
        /\ Len(prog[r]) > 1
        /\ prog[r][1].op = "Scatter"
        /\ prog[r][2].op = "Copy"
        /\ FwdDone(r, 2)
        /\ pc[q].phase = "fwd" /\ pc[q].wait
        /\ prog[q][CurCall(q)].op = "Scatter"

\* Call k of rank r entered, in the given collectives, a reduce or a gather
\* that every rank entered.
Exchanged(r, cs) ==
    /\ \E s \in cs : board[s][r].step[1] \in {"reduce", "gather"}
    /\ \A s \in cs : AllEntered(s)

C9_ReturnsAfterAllEntered ==
    \A r \in Ranks : \A k \in CallIds(r) :
        /\ (FwdDone(r, k) /\ prog[r][k].op \in {"Reduce", "Gather", "GatherWithin"})
               => Exchanged(r, fcoll[r][k])
        /\ (BwdDone(r, k) /\ prog[r][k].op \in {"Copy", "Scatter", "GatherWithin"})
               => Exchanged(r, bcoll[r][k])

C9_StaysBlocked ==
    \A r \in Ranks :
        (pc[r].wait /\ ~AllEntered(cseq[r]))
            => (pc'[r] = pc[r] /\ cseq'[r] = cseq[r] /\ fout'[r] = fout[r]
                    /\ bout'[r] = bout[r])

(***************************************************************************)
(* C9. No rank returns from a call that performs a reduce or a gather      *)
(* before every rank has entered the matching collective, and a rank that  *)
(* waits in a collective some rank has not entered stays in it.            *)
(***************************************************************************)
C9_Blocking == []C9_ReturnsAfterAllEntered /\ [][C9_StaysBlocked]_vars

C9_Witness ==
    \E r, q \in Ranks :
        /\ pc[r].wait
        /\ board[cseq[r]][r].step[1] \in {"reduce", "gather"}
        /\ ~pc[q].wait
        /\ cseq[q] < cseq[r]
        /\ cseq[r] > 1

\* The collectives of one call, by what the transport can tell apart.
FwdColl(c) ==
    CASE c.op = "Copy" -> << >>
      [] c.op = "Reduce" -> << <<"reduce">> >>
      [] c.op = "Scatter" -> << <<"split">> >>
      [] OTHER -> << <<"gather", c.dim>> >>

BwdColl(c) ==
    CASE c.op = "Copy" -> << <<"reduce">> >>
      [] c.op = "Reduce" -> << >>
      [] c.op = "Scatter" -> << <<"gather", c.dim>> >>
      [] c.op = "Gather" -> << <<"split">> >>
      [] OTHER -> << <<"reduce">>, <<"split">> >>

RECURSIVE FwdSig(_, _)
FwdSig(P, k) == IF k > Len(P) THEN << >> ELSE FwdColl(P[k]) \o FwdSig(P, k + 1)

RECURSIVE BwdSig(_, _, _)
BwdSig(P, B, j) ==
    IF j > Len(B) THEN << >> ELSE BwdColl(P[B[j]]) \o BwdSig(P, B, j + 1)

CollSig(r) == FwdSig(prog[r], 1) \o BwdSig(prog[r], border[r], 1)

SameOrder == \A r \in Ranks : prog[r] = prog[0] /\ border[r] = border[0]

DifferentOrder == N >= 2 /\ CollSig(1) # CollSig(0)

Deadlocked == \E s \in 1 .. Len(board) : AllEntered(s) /\ ~Matched(s)

(***************************************************************************)
(* C10. When every rank runs the same calls in the same order, forward and *)
(* backward, every call returns under fair scheduling; when the ranks'     *)
(* collectives come in a different order, the ranks end up waiting in      *)
(* collectives that do not match and none of them proceeds.                *)
(***************************************************************************)
C10_OrderAndDeadlock ==
    /\ SameOrder => <>AllDone
    /\ DifferentOrder => <>[](Deadlocked /\ ~ENABLED Next)

C10_Witness ==
    /\ Deadlocked
    /\ ~SameOrder
    /\ \A r \in Ranks : pc[r].wait
    /\ \E r, q \in Ranks :
           /\ board[cseq[r]][r].step[1] = "reduce"
           /\ board[cseq[q]][q].step[1] = "gather"

====
